---- MODULE Spec2Model ----
(***************************************************************************)
(* Model of src/agent/bot.py: the command dispatcher (dispatch and the     *)
(* cmd_* handlers), tg_send and the long-polling ingestion loop (run).     *)
(*                                                                         *)
(* Text is a sequence of one-character strings.  The Latin capitals        *)
(* "A".."H" stand for the eight Cyrillic format labels of FORMAT_NAMES,    *)
(* and "a".."h" for their lower-case forms.                                *)
(***************************************************************************)
EXTENDS Integers, Sequences, FiniteSets, TLC

\* ------------------------------------------------------------------------
\* Bounds of the model
\* ------------------------------------------------------------------------
MaxUpdates == 2

MaxRestarts == 1

MaxReels == 2

MaxStatReels == 4

MaxDay == 14

MaxChunks == 2

\* ------------------------------------------------------------------------
\* Python str operations, computed character by character
\* ------------------------------------------------------------------------
Whitespace == {" ", "\t", "\n"}

LowerLetters ==
  <<"a","b","c","d","e","f","g","h","i","j","k","l","m",
    "n","o","p","q","r","s","t","u","v","w","x","y","z">>

UpperLetters ==
  <<"A","B","C","D","E","F","G","H","I","J","K","L","M",
    "N","O","P","Q","R","S","T","U","V","W","X","Y","Z">>

Digits == <<"0","1","2","3","4","5","6","7","8","9">>

lowerChar(c) ==
  IF \E i \in 1..26 : UpperLetters[i] = c
    THEN LowerLetters[CHOOSE i \in 1..26 : UpperLetters[i] = c]
    ELSE c

upperChar(c) ==
  IF \E i \in 1..26 : LowerLetters[i] = c
    THEN UpperLetters[CHOOSE i \in 1..26 : LowerLetters[i] = c]
    ELSE c

\* str.lower()
lower(s) == [i \in 1..Len(s) |-> lowerChar(s[i])]

\* str.upper()
upper(s) == [i \in 1..Len(s) |-> upperChar(s[i])]

RECURSIVE lstrip(_)
lstrip(s) ==
  IF s # <<>> /\ Head(s) \in Whitespace THEN lstrip(Tail(s)) ELSE s

RECURSIVE rstrip(_)
rstrip(s) ==
  IF s # <<>> /\ s[Len(s)] \in Whitespace
    THEN rstrip(SubSeq(s, 1, Len(s) - 1))
    ELSE s

\* str.strip()
strip(s) == rstrip(lstrip(s))

\* str.startswith(c) for a one-character prefix
startswith(s, c) == s # <<>> /\ Head(s) = c

\* index of the first occurrence of c in s, 0 when absent
find(s, c) ==
  IF \E i \in 1..Len(s) : s[i] = c
    THEN CHOOSE i \in 1..Len(s) : s[i] = c /\ \A j \in 1..(i - 1) : s[j] # c
    ELSE 0

\* str.split(c, 1): one or two parts
split1(s, c) ==
  IF find(s, c) = 0
    THEN <<s>>
    ELSE <<SubSeq(s, 1, find(s, c) - 1), SubSeq(s, find(s, c) + 1, Len(s))>>

\* str.split(c): every part
RECURSIVE split(_, _)
split(s, c) ==
  IF find(s, c) = 0
    THEN <<s>>
    ELSE <<SubSeq(s, 1, find(s, c) - 1)>>
           \o split(SubSeq(s, find(s, c) + 1, Len(s)), c)

\* a character str.isdigit() accepts and int() does not: a digit that is
\* no decimal digit.  "^" stands for SUPERSCRIPT TWO (U+00B2).
DigitLike == {"^"}

isDecimal(c) == \E d \in 1..10 : Digits[d] = c

\* str.isdigit(): non-empty and every character a digit, decimal or not
isdigit(s) ==
  s # <<>> /\ \A i \in 1..Len(s) : isDecimal(s[i]) \/ s[i] \in DigitLike

digitValue(c) == (CHOOSE d \in 1..10 : Digits[d] = c) - 1

\* int(s) raises ValueError: s has a character that is no decimal digit
intRaises(s) == \E i \in 1..Len(s) : ~isDecimal(s[i])

\* int(s) for a string of decimal digits
RECURSIVE int(_)
int(s) ==
  IF s = <<>> THEN 0
  ELSE 10 * int(SubSeq(s, 1, Len(s) - 1)) + digitValue(s[Len(s)])


\* ------------------------------------------------------------------------
\* Collaborators imported from main (load_data, save_data, FORMAT_NAMES,
\* analyze, generate_plan) and the generation clients
\* ------------------------------------------------------------------------

\* the keys of FORMAT_NAMES: the eight format labels
FORMAT_NAMES ==
  {<<"A">>, <<"B">>, <<"C">>, <<"D">>, <<"E">>, <<"F">>, <<"G">>, <<"H">>}

\* the days datetime.now() may fall on, as proleptic ordinals: day 1 is a
\* Monday
Days == 1..MaxDay

\* What the outside world does during one dispatch: the text-generation call
\* returns or raises, OPENAI_API_KEY is set or not, the image-generation call
\* returns or raises, Google Trends answers or is unavailable, and the day
\* the clock shows.
Envs ==
  [claude : {"ok", "raise"}, key : BOOLEAN, image : {"ok", "raise"},
   trends : {"ok", "unavailable"}, today : Days]

\* ------------------------------------------------------------------------
\* Telegram helpers
\* ------------------------------------------------------------------------

\* text[i:i+4000] for i in range(0, len(text), 4000)
ChunkSize == 4000

\* tg_send posting the whole text in one request
tg_send_unsplit(chat_id, text) == <<[chat_id |-> chat_id, text |-> text]>>

\* tg_send: the requests it posts, in order.  A request that fails is
\* printed and the next chunk is posted.
tg_send(chat_id, text) ==
  [k \in 1..((Len(text) + ChunkSize - 1) \div ChunkSize) |->
     [chat_id |-> chat_id,
      text    |-> SubSeq(text, (k - 1) * ChunkSize + 1,
                         IF k * ChunkSize < Len(text)
                           THEN k * ChunkSize ELSE Len(text))]]

\* ------------------------------------------------------------------------
\* Results of a handler call
\* ------------------------------------------------------------------------
Reply(kind, arg) == [kind |-> kind, arg |-> arg]

None == Reply("None", <<>>)

\* a handler that returned `reply`; counts of the outside calls it made
Returned(reply, data, claude, image, photo, saved) ==
  [reply |-> reply, raised |-> FALSE, handler |-> "", reels |-> data,
   claude |-> claude, image |-> image, photo |-> photo, saved |-> saved]

\* a handler that raised an Exception
Raised(data, claude) ==
  [reply |-> None, raised |-> TRUE, handler |-> "", reels |-> data,
   claude |-> claude, image |-> 0, photo |-> 0, saved |-> 0]

\* a handler that only answers
Answer(kind, arg, data) == Returned(Reply(kind, arg), data, 0, 0, 0, 0)

\* ask_claude(prompt) and return its text as the reply
ask_claude(kind, arg, data, env) ==
  IF env.claude = "raise"
    THEN Raised(data, 1)
    ELSE Returned(Reply(kind, arg), data, 1, 0, 0, 0)

\* ------------------------------------------------------------------------
\* Handlers
\* ------------------------------------------------------------------------
cmd_help(data) == Answer("help", <<>>, data)

cmd_script(fmt_arg, data, env) ==
  LET fmt == IF fmt_arg # <<>> THEN upper(strip(fmt_arg)) ELSE <<"A">>
  IN  IF fmt \notin FORMAT_NAMES
        THEN Answer("script_unknown_format", fmt, data)
        ELSE ask_claude("script", fmt, data, env)

\* cmd_reel without its check for an empty topic
cmd_reel_noUsage(topic, data, env) == ask_claude("reel", topic, data, env)

cmd_reel(topic, data, env) ==
  IF strip(topic) = <<>>
    THEN Answer("usage_reel", <<>>, data)
    ELSE ask_claude("reel", topic, data, env)

cmd_hooks(topic, data, env) ==
  IF strip(topic) = <<>>
    THEN Answer("usage_hook", <<>>, data)
    ELSE ask_claude("hooks", topic, data, env)

\* where sorted() puts a one-letter format label
labelRank(fmt) == CHOOSE i \in 1..26 : UpperLetters[i] = fmt[1]

\* the loop of cmd_stats over reels: per format, the count and the views
RECURSIVE fmt_stats(_)
fmt_stats(reels) ==
  IF reels = <<>> THEN [f \in {} |-> [count |-> 0, views |-> 0]]
  ELSE
    LET prev == fmt_stats(SubSeq(reels, 1, Len(reels) - 1))
        r    == reels[Len(reels)]
        old  == IF r.format \in DOMAIN prev
                  THEN prev[r.format]
                  ELSE [count |-> 0, views |-> 0]
    IN  [f \in DOMAIN prev \cup {r.format} |->
           IF f = r.format
             THEN [count |-> old.count + 1, views |-> old.views + r.views]
             ELSE prev[f]]

\* sorted(labels)
RECURSIVE sortedLabels(_)
sortedLabels(S) ==
  IF S = {} THEN <<>>
  ELSE LET m == CHOOSE x \in S : \A y \in S : labelRank(x) <= labelRank(y)
       IN  <<m>> \o sortedLabels(S \ {m})

\* the labels of reels in the order they first occur
RECURSIVE firstSeen(_)
firstSeen(reels) ==
  IF reels = <<>> THEN <<>>
  ELSE LET front == firstSeen(SubSeq(reels, 1, Len(reels) - 1))
           f     == reels[Len(reels)].format
       IN  IF \E i \in 1..Len(front) : front[i] = f
             THEN front
             ELSE Append(front, f)

\* the format lines with `fmt_stats.items()` in place of
\* `sorted(fmt_stats.items())`
stats_lines_unsorted(reels) ==
  LET st == fmt_stats(reels)
      ks == firstSeen(reels)
  IN  [i \in 1..Len(ks) |->
         <<ks[i], st[ks[i]].count,
           IF st[ks[i]].count # 0 THEN st[ks[i]].views \div st[ks[i]].count ELSE 0>>]

\* the format lines of cmd_stats: label, count, avg
stats_lines(reels) ==
  LET st == fmt_stats(reels)
      ks == sortedLabels(DOMAIN st)
  IN  [i \in 1..Len(ks) |->
         <<ks[i], st[ks[i]].count,
           IF st[ks[i]].count # 0 THEN st[ks[i]].views \div st[ks[i]].count ELSE 0>>]

\* r put into a list that is sorted by views, highest first, in front of
\* the records with as many views
insertByViews_front(s, r) ==
  LET k == Cardinality({i \in 1..Len(s) : s[i].views > r.views})
  IN  SubSeq(s, 1, k) \o <<r>> \o SubSeq(s, k + 1, Len(s))

\* r put into a list that is sorted by views, highest first, behind the
\* records with as many views
insertByViews(s, r) ==
  LET k == Cardinality({i \in 1..Len(s) : s[i].views >= r.views})
  IN  SubSeq(s, 1, k) \o <<r>> \o SubSeq(s, k + 1, Len(s))

\* sorted(reels, key=views, reverse=True) with equal keys in reverse
RECURSIVE sortedByViews_reversed(_)
sortedByViews_reversed(reels) ==
  IF reels = <<>> THEN <<>>
  ELSE insertByViews_front(sortedByViews_reversed(SubSeq(reels, 1, Len(reels) - 1)),
                           reels[Len(reels)])

\* sorted(reels, key=views, reverse=True): equal keys keep their order
RECURSIVE sortedByViews(_)
sortedByViews(reels) ==
  IF reels = <<>> THEN <<>>
  ELSE insertByViews(sortedByViews(SubSeq(reels, 1, Len(reels) - 1)),
                     reels[Len(reels)])

\* [:3]
TopCount == 3

\* hook[:50]
HookShown == 50

\* the top lines of cmd_stats: views, label, start of the hook
stats_top(reels) ==
  LET top == SubSeq(sortedByViews(reels), 1,
                    IF Len(reels) < TopCount THEN Len(reels) ELSE TopCount)
  IN  [i \in 1..Len(top) |->
         <<top[i].views, top[i].format,
           SubSeq(top[i].hook, 1,
                  IF Len(top[i].hook) < HookShown THEN Len(top[i].hook) ELSE HookShown)>>]

\* cmd_stats with reels.sort(key=views, reverse=True) in place of sorted()
cmd_stats_sortsInPlace(data) ==
  IF data = <<>>
    THEN Answer("stats_nodata", <<>>, data)
    ELSE Answer("stats", <<Len(data), stats_lines(data), stats_top(data)>>,
                sortedByViews(data))

cmd_stats(data) ==
  IF data = <<>>
    THEN Answer("stats_nodata", <<>>, data)
    ELSE Answer("stats", <<Len(data), stats_lines(data), stats_top(data)>>, data)

\* analyze(data, []) and generate_plan(analysis, data) of main
cmd_plan(data, env) == ask_claude("plan", <<>>, data, env)

cmd_trends(data, env) ==
  IF env.trends = "unavailable"
    THEN Answer("trends_unavailable", <<>>, data)
    ELSE ask_claude("trends", <<>>, data, env)

\* date.weekday() of the day with ordinal d: 0 is Monday
weekday(d) == (d + 6) % 7

\* the schedule of cmd_week: offset from Monday and day name
schedule ==
  << [offset |-> 0, day_name |-> "Monday"],
     [offset |-> 2, day_name |-> "Wednesday"],
     [offset |-> 4, day_name |-> "Friday"],
     [offset |-> 6, day_name |-> "Sunday"] >>

\* cmd_week with start_of_week = today
cmd_week_fromToday(data, env) ==
  LET today         == env.today
      start_of_week == today
  IN  Answer("week",
             [i \in 1..Len(schedule) |->
                LET post_date == start_of_week + schedule[i].offset
                IN  <<post_date, schedule[i].day_name, post_date = today>>],
             data)

\* the slots of the week: date, day name, whether it carries the marker
cmd_week(data, env) ==
  LET today         == env.today
      start_of_week == today - weekday(today)
  IN  Answer("week",
             [i \in 1..Len(schedule) |->
                LET post_date == start_of_week + schedule[i].offset
                IN  <<post_date, schedule[i].day_name, post_date = today>>],
             data)

cmd_analyze(description, data, env) ==
  IF strip(description) = <<>>
    THEN Answer("usage_analyze", <<>>, data)
    ELSE ask_claude("analysis", description, data, env)

\* cmd_cover without `if not os.getenv("OPENAI_API_KEY")`
cmd_cover_noKeyCheck(args, data, env) ==
  IF strip(args) = <<>> THEN Answer("usage_cover", <<>>, data)
  ELSE
    LET raw   == split1(args, "|")
        parts == [i \in 1..Len(raw) |-> strip(raw[i])]
        fmt0  == IF Len(parts) = 2 THEN upper(parts[1]) ELSE <<"A">>
        hook  == IF Len(parts) = 2 THEN parts[2] ELSE strip(args)
        fmt   == IF fmt0 \notin FORMAT_NAMES THEN <<"A">> ELSE fmt0
    IN  IF hook = <<>> THEN Answer("cover_need_hook", <<>>, data)
        ELSE IF env.image = "raise"
          THEN Returned(Reply("cover_error", <<>>), data, 0, 1, 0, 0)
          ELSE Returned(Reply("cover_ready", fmt), data, 0, 1, 1, 0)

cmd_cover(args, data, env) ==
  IF strip(args) = <<>> THEN Answer("usage_cover", <<>>, data)
  ELSE
    LET raw   == split1(args, "|")
        parts == [i \in 1..Len(raw) |-> strip(raw[i])]
        fmt0  == IF Len(parts) = 2 THEN upper(parts[1]) ELSE <<"A">>
        hook  == IF Len(parts) = 2 THEN parts[2] ELSE strip(args)
        fmt   == IF fmt0 \notin FORMAT_NAMES THEN <<"A">> ELSE fmt0
    IN  IF hook = <<>> THEN Answer("cover_need_hook", <<>>, data)
        ELSE IF ~env.key THEN Answer("cover_no_key", <<>>, data)
        ELSE IF env.image = "raise"
          THEN Returned(Reply("cover_error", <<>>), data, 0, 1, 0, 0)
          ELSE Returned(Reply("cover_ready", fmt), data, 0, 1, 1, 0)

\* cmd_add._int raises: s.isdigit() holds and int(s) rejects s
_intRaises(s) == isdigit(strip(s)) /\ intRaises(strip(s))

\* cmd_add._int
_int(s) == IF isdigit(strip(s)) THEN int(strip(s)) ELSE 0

\* cmd_add without `if fmt not in FORMAT_NAMES`
cmd_add_unchecked(args, data) ==
  IF strip(args) = <<>> THEN Answer("usage_add", <<>>, data)
  ELSE
    LET raw   == split(args, "|")
        parts == [i \in 1..Len(raw) |-> strip(raw[i])]
        field(i) == IF Len(parts) > i - 1 THEN _int(parts[i]) ELSE 0
    IN  IF Len(parts) < 2 THEN Answer("add_bad_format", <<>>, data)
        ELSE IF parts[2] = <<>> THEN Answer("add_need_hook", <<>>, data)
        ELSE IF \E i \in 3..7 : Len(parts) > i - 1 /\ _intRaises(parts[i])
          THEN Raised(data, 0)
        ELSE
          LET reel == [format |-> upper(parts[1]), hook |-> parts[2],
                       views |-> field(3), likes |-> field(4),
                       saves |-> field(5), shares |-> field(6),
                       comments |-> field(7), reach |-> 0, days_live |-> 1]
          IN  Returned(Reply("add_ok", upper(parts[1])),
                       Append(data, reel), 0, 0, 0, 1)

\* cmd_add with data["reels"].insert(0, reel) in place of append(reel)
cmd_add_insertFirst(args, data) ==
  IF strip(args) = <<>> THEN Answer("usage_add", <<>>, data)
  ELSE
    LET raw   == split(args, "|")
        parts == [i \in 1..Len(raw) |-> strip(raw[i])]
        field(i) == IF Len(parts) > i - 1 THEN _int(parts[i]) ELSE 0
    IN  IF Len(parts) < 2 THEN Answer("add_bad_format", <<>>, data)
        ELSE IF upper(parts[1]) \notin FORMAT_NAMES
          THEN Answer("add_unknown_format", upper(parts[1]), data)
        ELSE IF parts[2] = <<>> THEN Answer("add_need_hook", <<>>, data)
        ELSE IF \E i \in 3..7 : Len(parts) > i - 1 /\ _intRaises(parts[i])
          THEN Raised(data, 0)
        ELSE
          LET reel == [format |-> upper(parts[1]), hook |-> parts[2],
                       views |-> field(3), likes |-> field(4),
                       saves |-> field(5), shares |-> field(6),
                       comments |-> field(7), reach |-> 0, days_live |-> 1]
          IN  Returned(Reply("add_ok", upper(parts[1])),
                       <<reel>> \o data, 0, 0, 0, 1)

cmd_add(args, data) ==
  IF strip(args) = <<>> THEN Answer("usage_add", <<>>, data)
  ELSE
    LET raw   == split(args, "|")
        parts == [i \in 1..Len(raw) |-> strip(raw[i])]
        field(i) == IF Len(parts) > i - 1 THEN _int(parts[i]) ELSE 0
    IN  IF Len(parts) < 2 THEN Answer("add_bad_format", <<>>, data)
        ELSE IF upper(parts[1]) \notin FORMAT_NAMES
          THEN Answer("add_unknown_format", upper(parts[1]), data)
        ELSE IF parts[2] = <<>> THEN Answer("add_need_hook", <<>>, data)
        ELSE IF \E i \in 3..7 : Len(parts) > i - 1 /\ _intRaises(parts[i])
          THEN Raised(data, 0)
        ELSE
          LET reel == [format |-> upper(parts[1]), hook |-> parts[2],
                       views |-> field(3), likes |-> field(4),
                       saves |-> field(5), shares |-> field(6),
                       comments |-> field(7), reach |-> 0, days_live |-> 1]
          IN  Returned(Reply("add_ok", upper(parts[1])),
                       Append(data, reel), 0, 0, 0, 1)

\* ------------------------------------------------------------------------
\* Dispatcher
\* ------------------------------------------------------------------------
K_start == <<"/","s","t","a","r","t">>

K_help == <<"/","h","e","l","p">>

K_script == <<"/","s","c","r","i","p","t">>

K_reel == <<"/","r","e","e","l">>

K_hook == <<"/","h","o","o","k">>

K_hooks == <<"/","h","o","o","k","s">>

K_cover == <<"/","c","o","v","e","r">>

K_plan == <<"/","p","l","a","n">>

K_week == <<"/","w","e","e","k">>

K_stats == <<"/","s","t","a","t","s">>

K_trends == <<"/","t","r","e","n","d","s">>

K_analyze == <<"/","a","n","a","l","y","z","e">>

K_add == <<"/","a","d","d">>

\* the keys of the `commands` table of dispatch
commands ==
  {K_start, K_help, K_script, K_reel, K_hook, K_hooks, K_cover, K_plan,
   K_week, K_stats, K_trends, K_analyze, K_add}

\* the handler the table binds to `cmd`, called
handler(cmd, args, data, env) ==
  CASE cmd = K_start   -> [cmd_help(data) EXCEPT !.handler = "cmd_help"]
    [] cmd = K_help    -> [cmd_help(data) EXCEPT !.handler = "cmd_help"]
    [] cmd = K_script  -> [cmd_script(args, data, env) EXCEPT !.handler = "cmd_script"]
    [] cmd = K_reel    -> [cmd_reel(args, data, env) EXCEPT !.handler = "cmd_reel"]
    [] cmd = K_hook    -> [cmd_hooks(args, data, env) EXCEPT !.handler = "cmd_hooks"]
    [] cmd = K_hooks   -> [cmd_hooks(args, data, env) EXCEPT !.handler = "cmd_hooks"]
    [] cmd = K_cover   -> [cmd_cover(args, data, env) EXCEPT !.handler = "cmd_cover"]
    [] cmd = K_plan    -> [cmd_plan(data, env) EXCEPT !.handler = "cmd_plan"]
    [] cmd = K_week    -> [cmd_week(data, env) EXCEPT !.handler = "cmd_week"]
    [] cmd = K_stats   -> [cmd_stats(data) EXCEPT !.handler = "cmd_stats"]
    [] cmd = K_trends  -> [cmd_trends(data, env) EXCEPT !.handler = "cmd_trends"]
    [] cmd = K_analyze -> [cmd_analyze(args, data, env) EXCEPT !.handler = "cmd_analyze"]
    [] cmd = K_add     -> [cmd_add(args, data) EXCEPT !.handler = "cmd_add"]

\* the command token dispatch computes from the trimmed text
cmdOf(text) == split1(lower(split1(strip(text), " ")[1]), "@")[1]

\* the argument string dispatch computes from the trimmed text
argsOf(text) ==
  IF Len(split1(strip(text), " ")) > 1 THEN split1(strip(text), " ")[2] ELSE <<>>

\* dispatch indexing the table, commands[cmd], instead of commands.get(cmd)
dispatch_unknownRaises(text, data, env) ==
  IF ~startswith(strip(text), "/") THEN Answer("None", <<>>, data)
  ELSE IF cmdOf(text) \in commands
    THEN handler(cmdOf(text), argsOf(text), data, env)
    ELSE Raised(data, 0)

\* dispatch without `if not text.startswith("/")`
dispatch_noPrefixCheck(text, data, env) ==
  IF cmdOf(text) \in commands
    THEN handler(cmdOf(text), argsOf(text), data, env)
    ELSE Answer("unknown_command", cmdOf(text), data)

dispatch(text, data, env) ==
  IF ~startswith(strip(text), "/") THEN Answer("None", <<>>, data)
  ELSE IF cmdOf(text) \in commands
    THEN handler(cmdOf(text), argsOf(text), data, env)
    ELSE Answer("unknown_command", cmdOf(text), data)


\* ------------------------------------------------------------------------
\* State
\* ------------------------------------------------------------------------
VARIABLES
  pc,         \* where run is: POLLING (line 600), FOR (602), LOAD (615),
              \* ACK (616), DISPATCH (618), SEND (620), EXCEPT (623-626),
              \* BACKOFF (628), SLEEP (630), STOPPED (625), ABORTED (an
              \* exception left run)
  exc,        \* the exception in flight or last caught: "none", "Exception",
              \* "KeyboardInterrupt"
  offset,     \* run's cursor
  updates,    \* the rest of the fetched batch, as update ids
  upd,        \* the update id of the current iteration
  data,       \* the snapshot load_data returned for the current message
  reply,      \* what dispatch returned for the current message
  msgs,       \* every update ever queued at the transport; its id is its index
  pending,    \* the ids the transport has not yet seen confirmed
  store,      \* the saved record collection
  dispatched, \* history: ids dispatch has been invoked on and run to its end
  owed,       \* history: ids whose dispatch was interrupted and not yet redone
  leftover,   \* history: ids that were behind the current message in a batch
              \* when an Exception ended the batch, and have not been
              \* dispatched since
  maxSeen,    \* history: highest id the for loop has taken in this run of run
  ordered,    \* history: every batch so far came in increasing id order
  restarts,   \* how many times run has been started again
  posts,      \* the sendMessage requests posted for the message at hand, or
              \* by the last tg_send made on its own
  fault,      \* history: the call that failed in the step just taken:
              \* "none", "fetch", "load", "dispatch", "send"
  call        \* the last call made on its own: input and result

vars ==
  <<pc, exc, offset, updates, upd, data, reply, msgs, pending, store,
    dispatched, owed, leftover, maxSeen, ordered, restarts, posts, fault, call>>

loopVars ==
  <<pc, exc, offset, updates, upd, data, reply, msgs, pending,
    dispatched, owed, leftover, maxSeen, ordered, restarts, fault>>

\* ------------------------------------------------------------------------
\* Inbound messages of the loop model
\* ------------------------------------------------------------------------
T_hi == <<"h","i">>

T_add_A == <<"/","a","d","d"," ","A","|","h">>

T_hook_t == <<"/","h","o","o","k"," ","t">>

\* chat id 0 stands for a message without a chat id
Payloads ==
  { [text |-> <<>>,     chat_id |-> 7],
    [text |-> T_add_A,  chat_id |-> 0],
    [text |-> T_hi,     chat_id |-> 7],
    [text |-> T_add_A,  chat_id |-> 7],
    [text |-> T_hook_t, chat_id |-> 7] }

\* the outcomes of the outside calls the handlers of Payloads make
LoopEnvs ==
  [claude : {"ok", "raise"}, key : {TRUE}, image : {"ok"}, trends : {"ok"},
   today : {1}]

\* the check of run with `not text` alone
Deliverable_textOnly(u) == msgs[u].text # <<>>

\* `not text or not chat_id` is false
Deliverable(u) == msgs[u].text # <<>> /\ msgs[u].chat_id # 0

NoCall ==
  [done |-> FALSE, text |-> <<>>, before |-> <<>>,
   env |-> [claude |-> "ok", key |-> FALSE, image |-> "ok", trends |-> "ok",
            today |-> 1],
   res |-> Answer("None", <<>>, <<>>)]

Init ==
  /\ pc = "POLLING"
  /\ exc = "none"
  /\ offset = 0
  /\ updates = <<>>
  /\ upd = 0
  /\ data = <<>>
  /\ reply = None
  /\ msgs = <<>>
  /\ pending = {}
  /\ store = <<>>
  /\ dispatched = {}
  /\ owed = {}
  /\ leftover = {}
  /\ maxSeen = -1
  /\ ordered = TRUE
  /\ restarts = 0
  /\ posts = <<>>
  /\ fault = "none"
  /\ call = NoCall

\* ------------------------------------------------------------------------
\* The transport
\* ------------------------------------------------------------------------

\* a user sends a message: it is queued under the next update id.  run sees
\* the queue only when it polls, so arrivals are taken at that point.
Arrive ==
  /\ pc = "POLLING"
  /\ Len(msgs) < MaxUpdates
  /\ \E p \in Payloads : msgs' = Append(msgs, p)
  /\ pending' = pending \cup {Len(msgs) + 1}
  /\ UNCHANGED <<pc, exc, offset, updates, upd, data, reply, store,
                 dispatched, owed, leftover, maxSeen, ordered, restarts, posts, fault,
                 call>>

\* getUpdates(offset) confirms every update below offset and answers with
\* the rest
Unconfirmed(pend, off) == {i \in pend : i >= off}

Ascending(b) == \A i \in 1..(Len(b) - 1) : b[i] < b[i + 1]

\* every order an answer could list the ids of S in
Batches(S) ==
  {b \in [1..Cardinality(S) -> S] : \A i, j \in 1..Cardinality(S) : i # j => b[i] # b[j]}

\* the order getUpdates lists the ids of S in: increasing
InOrder(S) == {b \in Batches(S) : Ascending(b)}

\* ------------------------------------------------------------------------
\* run
\* ------------------------------------------------------------------------
InTry == {"POLLING", "FOR", "LOAD", "ACK", "DISPATCH", "SEND"}

Ended == {"STOPPED", "ABORTED"}

\* offset = upd["update_id"], the +1 forgotten
NextOffset_stay(update_id) == update_id

\* a bare `except: break` in place of the two except clauses
Caught_breakOnAny(e) == "STOPPED"

\* `except Exception` without its time.sleep(5)
Caught_noBackoff(e) == IF e = "KeyboardInterrupt" THEN "STOPPED" ELSE "SLEEP"

\* offset = upd["update_id"] + 1
NextOffset(update_id) == update_id + 1

\* the except clauses of run: where an exception raised in the try goes
Caught(e) == IF e = "KeyboardInterrupt" THEN "STOPPED" ELSE "BACKOFF"

\* updates = tg_get_updates(offset) where the answer is one of `answers`;
\* a failed request answers []
Fetch(answers) ==
  /\ pc = "POLLING"
  /\ pc' = "FOR"
  /\ \/ /\ updates' = <<>>
        /\ fault' = "fetch"
        /\ UNCHANGED <<pending, ordered>>
     \/ /\ pending' = Unconfirmed(pending, offset)
        /\ fault' = "none"
        /\ \E b \in answers :
             /\ updates' = b
             /\ ordered' = (ordered /\ Ascending(b))
  /\ UNCHANGED <<exc, offset, upd, data, reply, msgs, store, dispatched,
                 owed, leftover, maxSeen, restarts, posts, call>>

\* updates = tg_get_updates(offset)
Poll == Fetch(InOrder(Unconfirmed(pending, offset)))

\* updates = tg_get_updates(offset) from a transport that lists the ids in
\* any order
PollAnyOrder == Fetch(Batches(Unconfirmed(pending, offset)))

\* for upd in updates: the cursor moves, then the message is looked at
ForStep ==
  /\ pc = "FOR"
  /\ IF updates = <<>>
       THEN /\ pc' = "SLEEP"
            /\ UNCHANGED <<offset, updates, upd, maxSeen, posts>>
       ELSE /\ offset' = NextOffset(Head(updates))
            /\ upd' = Head(updates)
            /\ updates' = Tail(updates)
            /\ maxSeen' = IF Head(updates) > maxSeen THEN Head(updates) ELSE maxSeen
            /\ posts' = <<>>
            /\ pc' = IF Deliverable(Head(updates)) THEN "LOAD" ELSE "FOR"
  /\ fault' = "none"
  /\ UNCHANGED <<exc, data, reply, msgs, pending, store, dispatched, owed, leftover,
                 ordered, restarts, call>>

\* the ids of the batch the for loop has not come to
Rest(b) == {b[i] : i \in 1..Len(b)}

\* load_data() of main returns the saved collection or raises
load_data_outcomes == {"returns", "raises"}

\* print(sender, text); data = load_data()
LoadData ==
  /\ pc = "LOAD"
  /\ \E o \in load_data_outcomes :
       IF o = "returns"
         THEN /\ data' = store
              /\ pc' = "ACK"
              /\ fault' = "none"
              /\ UNCHANGED <<exc, leftover>>
         ELSE /\ exc' = "Exception"
              /\ fault' = "load"
              /\ pc' = "EXCEPT"
              /\ leftover' = leftover \cup Rest(updates)
              /\ UNCHANGED data
  /\ UNCHANGED <<offset, updates, upd, reply, msgs, pending, store,
                 dispatched, owed, maxSeen, ordered, restarts, posts, call>>

\* the text of the acknowledgement, "working"
WORKING == <<"w","o","r","k","i","n","g">>

\* the text of a reply, of which the model keeps the kind
replyText(r) == <<r.kind>>

\* what becomes of the requests of one tg_send: all answered, or one of
\* them failed and was printed inside tg_send
tg_send_outcomes == {"sent", "failed"}

\* tg_send(chat_id, working)
Ack ==
  /\ pc = "ACK"
  /\ pc' = "DISPATCH"
  /\ posts' = posts \o tg_send(msgs[upd].chat_id, WORKING)
  /\ \E o \in tg_send_outcomes :
       fault' = IF o = "failed" THEN "send" ELSE "none"
  /\ UNCHANGED <<exc, offset, updates, upd, data, reply, msgs, pending,
                 store, dispatched, owed, leftover, maxSeen, ordered, restarts, call>>

\* `if reply:` taken for whatever dispatch returned
Truthy_always(r) == TRUE

\* `if reply:`
Truthy(r) == r # None

\* reply = dispatch(text, data, chat_id)
Dispatch ==
  /\ pc = "DISPATCH"
  /\ \E env \in LoopEnvs :
       LET res == dispatch(msgs[upd].text, data, env)
       IN  /\ store' = IF res.saved = 1 THEN res.reels ELSE store
           /\ IF res.raised
                THEN /\ exc' = "Exception"
                     /\ fault' = "dispatch"
                     /\ pc' = "EXCEPT"
                     /\ leftover' = (leftover \ {upd}) \cup Rest(updates)
                     /\ UNCHANGED reply
                ELSE /\ reply' = res.reply
                     /\ pc' = IF Truthy(res.reply) THEN "SEND" ELSE "FOR"
                     /\ fault' = "none"
                     /\ leftover' = leftover \ {upd}
                     /\ UNCHANGED exc
  /\ dispatched' = dispatched \cup {upd}
  /\ owed' = owed \ {upd}
  /\ UNCHANGED <<offset, updates, upd, data, msgs, pending, maxSeen,
                 ordered, restarts, posts, call>>

\* tg_send(chat_id, reply)
Send ==
  /\ pc = "SEND"
  /\ pc' = "FOR"
  /\ posts' = posts \o tg_send(msgs[upd].chat_id, replyText(reply))
  /\ \E o \in tg_send_outcomes :
       fault' = IF o = "failed" THEN "send" ELSE "none"
  /\ UNCHANGED <<exc, offset, updates, upd, data, reply, msgs, pending,
                 store, dispatched, owed, leftover, maxSeen, ordered, restarts, call>>

\* except KeyboardInterrupt: break / except Exception: print
HandleException ==
  /\ pc = "EXCEPT"
  /\ pc' = Caught(exc)
  /\ fault' = "none"
  /\ UNCHANGED <<exc, offset, updates, upd, data, reply, msgs, pending,
                 store, dispatched, owed, leftover, maxSeen, ordered, restarts, posts,
                 call>>

\* time.sleep(5) in the except clause
Backoff ==
  /\ pc = "BACKOFF"
  /\ pc' = "SLEEP"
  /\ exc' = "none"
  /\ fault' = "none"
  /\ UNCHANGED <<offset, updates, upd, data, reply, msgs, pending, store,
                 dispatched, owed, leftover, maxSeen, ordered, restarts, posts, call>>

\* time.sleep(1), then the next iteration of while True
Sleep ==
  /\ pc = "SLEEP"
  /\ pc' = "POLLING"
  /\ fault' = "none"
  /\ UNCHANGED <<exc, offset, updates, upd, data, reply, msgs, pending,
                 store, dispatched, owed, leftover, maxSeen, ordered, restarts, posts,
                 call>>

\* SIGINT: KeyboardInterrupt is raised where run is.  Inside the try it
\* reaches the except clauses; in an except clause or in time.sleep(1) no
\* handler of run is around it.
Interrupt ==
  /\ pc \notin Ended
  /\ \/ /\ pc \in InTry
        /\ pc' = "EXCEPT"
        /\ owed' = IF pc = "DISPATCH" THEN owed \cup {upd} ELSE owed
     \/ /\ pc \in {"BACKOFF", "SLEEP"} \/ (pc = "EXCEPT" /\ exc = "Exception")
        /\ pc' = "ABORTED"
        /\ UNCHANGED owed
  /\ pc = "EXCEPT" => exc = "Exception"
  /\ exc' = "KeyboardInterrupt"
  /\ fault' = "none"
  /\ UNCHANGED <<offset, updates, upd, data, reply, msgs, pending, store,
                 dispatched, leftover, maxSeen, ordered, restarts, posts,
                 call>>

\* python3 bot.py again: run starts with offset = 0
Restart ==
  /\ pc \in Ended
  /\ restarts < MaxRestarts
  /\ restarts' = restarts + 1
  /\ pc' = "POLLING"
  /\ exc' = "none"
  /\ offset' = 0
  /\ updates' = <<>>
  /\ upd' = 0
  /\ data' = <<>>
  /\ reply' = None
  /\ maxSeen' = -1
  /\ posts' = <<>>
  /\ fault' = "none"
  /\ UNCHANGED <<msgs, pending, store, dispatched, owed, leftover, ordered, call>>

Next ==
  \/ Arrive
  \/ Poll
  \/ ForStep
  \/ LoadData
  \/ Ack
  \/ Dispatch
  \/ Send
  \/ HandleException
  \/ Backoff
  \/ Sleep
  \/ Interrupt
  \/ Restart

Spec == Init /\ [][Next]_vars

\* one run of run, never interrupted, on a transport of any order
NextAnyOrder ==
  \/ Arrive
  \/ PollAnyOrder
  \/ ForStep
  \/ LoadData
  \/ Ack
  \/ Dispatch
  \/ Send
  \/ HandleException
  \/ Backoff
  \/ Sleep

AnyOrderSpec == Init /\ [][NextAnyOrder]_vars


\* ------------------------------------------------------------------------
\* dispatch on its own: any text, any outcome of the outside calls, on the
\* record collection the earlier calls left
\* ------------------------------------------------------------------------

\* first tokens: the command keys, some in capitals, unknown commands and
\* words without the prefix
Words ==
  commands \cup
  { <<"/","A","D","D">>, <<"/","R","e","e","l">>, <<"/","S","C","R","I","P","T">>,
    <<"/","x">>, <<"/">>, <<"/","a","d","d","x">>,
    <<"h","i">>, <<"a","d","d">>, <<>> }

Separators == { <<" ">>, <<"\t">>, <<"\n">>, <<" ", " ">> }

Arguments ==
  { <<"t">>, <<"A">>, <<"b">>, <<"X">>,
    <<"A","|","h">>, <<"b"," ","|","h","|"," ","5">>, <<"X","|","h">>, <<"A","|">>, <<"A","|","h","|","x","|","7">> }

Texts ==
  Words
  \cup { w \o <<" ">> \o a : w \in Words, a \in Arguments }
  \cup { w \o sep \o a : w \in Words, sep \in Separators,
                         a \in {<<"t">>, <<"A","|","h">>} }
  \cup { w \o <<" ">> : w \in Words }
  \cup { <<" ">> \o w \o <<" ">> \o a : w \in Words, a \in {<<"A">>, <<"t">>} }
  \cup { w \o <<"@","b">> : w \in Words }
  \cup { w \o <<"@","b"," ">> \o a : w \in Words, a \in {<<"A">>, <<"A","|","h">>} }

\* the outcomes of the outside calls, at most one of them failing
CallEnvs ==
  {e \in Envs :
     /\ e.today = 1
     /\ Cardinality({f \in {"claude", "image", "trends"} : e[f] # "ok"}
                    \cup {f \in {"key"} : ~e[f]}) <= 1}

\* the store is empty and nothing has been dispatched
InitD == Init

\* load_data(), dispatch(text, data, chat_id), and save_data(data) when the
\* handler calls it
DispatchCall ==
  /\ ~call.done
  /\ \E text \in Texts, env \in CallEnvs :
       LET res == dispatch(text, store, env)
       IN  /\ Len(res.reels) <= MaxReels
           /\ call' = [done |-> TRUE, text |-> text, before |-> store,
                       env |-> env, res |-> res]
           /\ store' = IF res.saved = 1 THEN res.reels ELSE store
  /\ UNCHANGED <<loopVars, posts>>

\* the caller is ready for the next message
DispatchReturn ==
  /\ call.done
  /\ call' = NoCall
  /\ UNCHANGED <<store, loopVars, posts>>

NextD == DispatchCall \/ DispatchReturn

DispatchSpec == InitD /\ [][NextD]_vars


\* ------------------------------------------------------------------------
\* Properties of the ingestion loop (Spec)
\* ------------------------------------------------------------------------

\* C1: at-least-once delivery.  With batches in increasing id order, every
\* message with text and a chat id that the transport no longer holds (run
\* polled with a cursor above it, so no later poll can return it) has had
\* dispatch invoked on it.
C1_AtLeastOnce ==
  ordered =>
    \A u \in 1..Len(msgs) :
      (Deliverable(u) /\ u \notin pending) => u \in dispatched

\* C2 as claimed: whatever order a batch lists its ids in, the cursor never
\* decreases while run is running, and once the batch is behind it the
\* cursor is above every id the for loop has taken.
C2_CursorMonotone ==
  [][ /\ (restarts' = restarts => offset' >= offset)
      /\ (pc' \in {"SLEEP", "POLLING"} => offset' > maxSeen') ]_vars

\* C2 amended: the same, for batches that list ids in increasing order, none
\* below the cursor asked for.
C2_CursorMonotoneOrdered ==
  [][ ordered' =>
        /\ (restarts' = restarts => offset' >= offset)
        /\ (pc' \in {"SLEEP", "POLLING"} => offset' > maxSeen') ]_vars

\* C2 witness: two updates of one increasing batch are behind the cursor.
C2_Witness ==
  pc = "SLEEP" /\ ordered /\ exc = "none" /\ maxSeen = 2 /\ offset = 3
    /\ restarts = 0 /\ updates = <<>>

\* C3: re-delivery.  With batches in increasing id order, a message whose
\* dispatch was interrupted stays with the transport, to be fetched by the
\* restarted loop, until dispatch has been invoked on it again.
C3_Redelivery == ordered => owed \subseteq pending

\* C4: run ends only on KeyboardInterrupt; an Exception caught at the loop
\* boundary leads to the back-off, the sleep and the next poll.
C4_StopsOnlyOnInterrupt ==
  [][ /\ (pc' \in Ended /\ pc \notin Ended => exc' = "KeyboardInterrupt")
      /\ (pc = "EXCEPT" /\ exc = "Exception" /\ exc' = "Exception"
            => pc' = "BACKOFF")
      /\ (pc = "BACKOFF" /\ exc' # "KeyboardInterrupt" => pc' = "SLEEP")
      /\ (pc = "SLEEP" /\ exc' # "KeyboardInterrupt" => pc' = "POLLING") ]_vars

\* C4 witness: an Exception was raised inside the try and caught; run is in
\* its back-off.
C4_Witness == pc = "BACKOFF" /\ exc = "Exception"

\* C5: an interrupt never leaves run as an unhandled exception.
C5_InterruptHandled == pc # "ABORTED"

\* the request that acknowledges message u
AckOf(u) == [chat_id |-> msgs[u].chat_id, text |-> WORKING]

\* C17: for a message with text and a chat id, the acknowledgement is the
\* first request posted and is out when dispatch is invoked; the reply is
\* posted after dispatch has returned, to the same chat, behind the
\* acknowledgement, and only when dispatch returned a reply: a dispatch
\* that returns a reply is followed by its send, one that returns none by
\* the next message with nothing posted.
C17_AckThenReply ==
  [][ /\ (pc' = "DISPATCH" => posts' = <<AckOf(upd')>>)
      /\ (pc = "DISPATCH" /\ pc' = "SEND" => reply' # None)
      /\ (pc = "DISPATCH" /\ pc' = "FOR" => reply' = None /\ posts' = posts)
      /\ (pc = "DISPATCH" /\ exc' = exc => pc' = IF reply' # None THEN "SEND" ELSE "FOR")
      /\ (posts' # posts /\ posts' # <<>> =>
            \/ pc = "ACK" /\ posts = <<>> /\ posts' = <<AckOf(upd)>>
            \/ /\ pc = "SEND"
               /\ upd \in dispatched
               /\ reply # None
               /\ posts = <<AckOf(upd)>>
               /\ posts' = <<AckOf(upd),
                             [chat_id |-> msgs[upd].chat_id,
                              text |-> replyText(reply)]>>) ]_vars

\* C17 witness: the acknowledgement and then the reply of a dispatched
\* message have been posted.
C17_Witness ==
  /\ pc = "FOR"
  /\ upd \in dispatched
  /\ Len(posts) = 2
  /\ posts[1] = AckOf(upd)
  /\ posts[2].text = replyText(reply)

\* C18 as claimed: a failure while fetching updates, dispatching or sending
\* arrives as an Exception at the except clause of run, which goes to the
\* back-off, and from there to the sleep and the next poll.
C18_AnyFailureBacksOff ==
  [][ /\ (fault' \in {"fetch", "dispatch", "send"} =>
            pc' = "EXCEPT" /\ exc' = "Exception")
      /\ (pc = "EXCEPT" /\ exc = "Exception" /\ exc' = exc => pc' = "BACKOFF")
      /\ (pc = "BACKOFF" /\ exc' # "KeyboardInterrupt" => pc' = "SLEEP") ]_vars

\* C18 amended: an exception raised by load_data or by dispatch arrives at
\* the except clause of run, which goes to the back-off, and from there to
\* the sleep and the next poll.  A failed fetch is an empty batch: run goes
\* through the for loop to the sleep without back-off.  A failed send
\* leaves run where a send that went through leaves it, without back-off.
C18_RaisedFailureBacksOff ==
  [][ /\ (fault' \in {"load", "dispatch"} =>
            pc' = "EXCEPT" /\ exc' = "Exception")
      /\ (pc = "EXCEPT" /\ exc = "Exception" /\ exc' = exc => pc' = "BACKOFF")
      /\ (pc = "BACKOFF" /\ exc' # "KeyboardInterrupt" => pc' = "SLEEP")
      /\ (fault' = "fetch" =>
            pc = "POLLING" /\ pc' = "FOR" /\ updates' = <<>> /\ exc' = exc)
      /\ (pc = "FOR" /\ updates = <<>> /\ exc' = exc => pc' = "SLEEP")
      /\ (fault' = "send" =>
            /\ exc' = exc
            /\ \/ pc = "ACK" /\ pc' = "DISPATCH"
               \/ pc = "SEND" /\ pc' = "FOR") ]_vars

\* C18 witness: dispatch has just raised and run is at its except clause.
C18_Witness == fault = "dispatch" /\ pc = "EXCEPT" /\ exc = "Exception"

\* message u has no text or no chat to answer to
Ignorable(u) == msgs[u].text = <<>> \/ msgs[u].chat_id = 0

\* C19: when the for loop takes a message without text or without a chat
\* id, it goes on to the next message: nothing is posted, load_data and
\* dispatch are not called, the store and the snapshot stay as they are,
\* and the cursor is one above the message.  run is at load_data, the
\* acknowledgement, dispatch or the send only for a message with both; and
\* no fetch returns an id the loop has already taken in this run.
C19_IgnoredMessage ==
  [][ /\ ( /\ pc = "FOR"
           /\ updates # <<>>
           /\ Ignorable(Head(updates))
           /\ exc' = exc )
         => /\ pc' = "FOR"
            /\ upd' = Head(updates)
            /\ offset' = Head(updates) + 1
            /\ posts' = <<>>
            /\ store' = store
            /\ data' = data
            /\ dispatched' = dispatched
      /\ (pc' \in {"LOAD", "ACK", "DISPATCH", "SEND"} => ~Ignorable(upd'))
      /\ (pc = "POLLING" /\ pc' = "FOR" =>
            \A i \in 1..Len(updates') : updates'[i] > maxSeen) ]_vars

\* C19 witness: the for loop has just passed over a message without text or
\* chat id that dispatch has never seen; the cursor is above it.
C19_Witness ==
  /\ pc = "FOR"
  /\ upd >= 1
  /\ Ignorable(upd)
  /\ offset = upd + 1
  /\ upd \notin dispatched
  /\ posts = <<>>

\* C21: when load_data or dispatch raises an Exception for message N of a
\* batch, the cursor is N + 1 and the messages behind N in the batch are
\* with the transport at or above the cursor, so the next fetch returns
\* them; and each of them that has text and a chat id stays with the
\* transport until dispatch has been invoked on it.
C21_RestOfBatchKept ==
  [][ /\ (pc' = "EXCEPT" /\ exc' = "Exception" /\ fault' \in {"load", "dispatch"}
            => /\ offset' = upd' + 1
               /\ \A u \in Rest(updates') : u \in pending' /\ u >= offset')
      /\ (\A u \in leftover' : Deliverable(u) => u \in pending') ]_vars

\* ------------------------------------------------------------------------
\* Properties of dispatch (DispatchSpec)
\* ------------------------------------------------------------------------

\* C6: every record of the store has a category of FORMAT_NAMES, and an add
\* whose category field (first pipe field, trimmed and case-folded as the
\* handler does) is not in FORMAT_NAMES answers with a usage or validation
\* message and appends nothing.
C6_ValidCategories ==
  /\ \A i \in 1..Len(store) : store[i].format \in FORMAT_NAMES
  /\ ( /\ call.done
       /\ startswith(strip(call.text), "/")
       /\ cmdOf(call.text) = K_add
       /\ upper(strip(split1(argsOf(call.text), "|")[1])) \notin FORMAT_NAMES )
     => /\ call.res.reply.kind \in {"usage_add", "add_bad_format", "add_unknown_format"}
        /\ call.res.saved = 0
        /\ call.res.reels = call.before
        /\ store = call.before

\* C6 witness: an add with an unknown category was refused on a store that
\* already holds a record.
C6_Witness ==
  call.done /\ call.res.reply.kind = "add_unknown_format" /\ Len(store) >= 1

\* C7: text with the prefix whose command token is no key of the table gets
\* the unknown-command reply naming the token; nothing is raised, no handler
\* runs.  The token is in the table when the trimmed, case-folded text
\* starts with a key that is followed by nothing, by a space or by "@".
C7_UnknownCommand ==
  LET t == lower(strip(call.text))
      known == \E k \in commands :
                 /\ Len(t) >= Len(k)
                 /\ SubSeq(t, 1, Len(k)) = k
                 /\ (Len(t) = Len(k) \/ t[Len(k) + 1] \in {" ", "@"})
  IN  (call.done /\ startswith(t, "/") /\ ~known)
        => /\ call.res.reply.kind = "unknown_command"
           /\ call.res.reply.arg = split1(split1(t, " ")[1], "@")[1]
           /\ ~call.res.raised
           /\ call.res.handler = ""
           /\ call.res.claude = 0 /\ call.res.image = 0 /\ call.res.saved = 0
           /\ store = call.before

\* C7 witness: an unknown command followed by arguments was dispatched.
C7_Witness ==
  call.done /\ call.text = <<"/","x"," ","A","|","h">>
    /\ call.res.reply.kind = "unknown_command"

\* C8: text whose first character after the leading whitespace is not the
\* prefix gets no reply; no handler runs and nothing outside is called.
C8_NoReplyWithoutPrefix ==
  LET t == call.text
      first == {i \in 1..Len(t) :
                  t[i] \notin Whitespace /\ \A j \in 1..(i - 1) : t[j] \in Whitespace}
  IN  (call.done /\ \A i \in first : t[i] # "/")
        => /\ call.res.reply = None
           /\ ~call.res.raised
           /\ call.res.handler = ""
           /\ call.res.claude = 0 /\ call.res.image = 0 /\ call.res.photo = 0
           /\ call.res.saved = 0
           /\ store = call.before

\* C8 witness: a command word without the prefix, after leading whitespace
\* and with an argument, was dispatched.
C8_Witness ==
  call.done /\ call.text = <<" ","a","d","d"," ","A">> /\ call.res.reply = None

\* C9: the command token is the first whitespace-delimited token of the
\* trimmed text, case-folded and cut at "@"; when it is a key of the table
\* the call resolves to that key's handler.
C9_WhitespaceToken ==
  LET t == strip(call.text)
      ws == {i \in 1..Len(t) : t[i] \in Whitespace}
      stop == IF ws = {} THEN Len(t) + 1
              ELSE CHOOSE i \in ws : \A j \in ws : i <= j
      token == split1(lower(SubSeq(t, 1, stop - 1)), "@")[1]
  IN  (call.done /\ startswith(t, "/") /\ token \in commands)
        => /\ call.res.reply.kind # "unknown_command"
           /\ call.res.handler # ""

\* C10 as claimed: script, reel, hook, cover, analyze and add with an absent
\* or blank argument string answer with usage or guidance text; nothing is
\* raised, no generation client is called and the store is not touched.
C10_UsageWithoutArgument ==
  ( /\ call.done
    /\ startswith(strip(call.text), "/")
    /\ cmdOf(call.text) \in {K_script, K_reel, K_hook, K_hooks, K_cover, K_analyze, K_add}
    /\ strip(argsOf(call.text)) = <<>> )
  => /\ call.res.reply.kind \in
          {"script_unknown_format", "usage_reel", "usage_hook", "usage_cover",
           "usage_analyze", "usage_add"}
     /\ ~call.res.raised
     /\ call.res.claude = 0 /\ call.res.image = 0 /\ call.res.photo = 0
     /\ call.res.saved = 0
     /\ store = call.before

\* C10 amended: reel, hook, cover, analyze and add with an absent or blank
\* argument string answer with their own usage text, raise nothing, call no
\* generation client and leave the store alone; script with an absent
\* argument string takes the default format label and calls the
\* text-generation client for it.
C10_UsageExceptScript ==
  LET c == cmdOf(call.text)
      usage == CASE c = K_reel    -> "usage_reel"
                 [] c = K_hook    -> "usage_hook"
                 [] c = K_hooks   -> "usage_hook"
                 [] c = K_cover   -> "usage_cover"
                 [] c = K_analyze -> "usage_analyze"
                 [] c = K_add     -> "usage_add"
                 [] OTHER         -> "script"
  IN  ( /\ call.done
        /\ startswith(strip(call.text), "/")
        /\ c \in {K_script, K_reel, K_hook, K_hooks, K_cover, K_analyze, K_add}
        /\ strip(argsOf(call.text)) = <<>> )
      => /\ call.res.image = 0 /\ call.res.photo = 0
         /\ call.res.saved = 0
         /\ store = call.before
         /\ IF c = K_script
              THEN /\ call.res.claude = 1
                   /\ call.res.raised = (call.env.claude = "raise")
                   /\ ~call.res.raised => call.res.reply = Reply("script", <<"A">>)
              ELSE /\ call.res.reply = Reply(usage, <<>>)
                   /\ ~call.res.raised
                   /\ call.res.claude = 0

\* C10 witness: /reel without a topic was answered with its usage text while
\* the text-generation client was failing.
C10_Witness ==
  call.done /\ call.text = K_reel /\ call.env.claude = "raise"
    /\ call.res.reply.kind = "usage_reel" /\ ~call.res.raised


\* the headline of a cover: the text after the first "|", or the whole
\* argument string when there is none
CoverHook(text) ==
  IF find(argsOf(text), "|") = 0
    THEN strip(argsOf(text))
    ELSE strip(SubSeq(argsOf(text), find(argsOf(text), "|") + 1,
                      Len(argsOf(text))))

\* C12: with OPENAI_API_KEY not set, a cover with a headline is answered
\* with the text that tells the user to set the key; the image-generation
\* client is not called, no photo is sent and nothing is raised.
C12_CoverWithoutKey ==
  ( /\ call.done
    /\ startswith(strip(call.text), "/")
    /\ cmdOf(call.text) = K_cover
    /\ CoverHook(call.text) # <<>>
    /\ ~call.env.key )
  => /\ call.res.reply = Reply("cover_no_key", <<>>)
     /\ ~call.res.raised
     /\ call.res.image = 0
     /\ call.res.photo = 0

\* C12 witness: /cover A|h was dispatched with the key not set and answered
\* with the guidance text.
C12_Witness ==
  call.done /\ call.text = K_cover \o <<" ", "A", "|", "h">> /\ ~call.env.key
    /\ call.res.reply.kind = "cover_no_key" /\ call.res.image = 0

\* C20: dispatching a text that does not resolve to add (a text without
\* the prefix, an unknown command, or any other command of the table)
\* leaves the record collection as it was, in memory and saved, and does
\* not call save_data, whether the handler returns or raises.
C20_OnlyAddMutates ==
  ( /\ call.done
    /\ ~(startswith(strip(call.text), "/") /\ cmdOf(call.text) = K_add) )
  => /\ call.res.saved = 0
     /\ call.res.reels = call.before
     /\ store = call.before

\* C20 witness: stats was dispatched on a collection of two records with
\* different views and left it as it was.
C20_Witness ==
  /\ call.done /\ call.text = K_stats
  /\ Len(call.before) = 2
  /\ call.before[1].views < call.before[2].views
  /\ call.res.reply.kind = "stats"
  /\ store = call.before

\* the trimmed parts of the argument string of an add
AddParts(text) ==
  LET raw == split(argsOf(text), "|")
  IN  [i \in 1..Len(raw) |-> strip(raw[i])]

\* C22: whatever is dispatched, the saved collection begins with the
\* records it had before, unchanged and in place, so its length never
\* decreases.  An add that succeeds appends one record, the one its
\* arguments spell, at the end and saves once; an add that answers with its
\* usage text or a validation message appends nothing and does not save.
C22_AppendOnly ==
  call.done =>
    /\ Len(store) >= Len(call.before)
    /\ SubSeq(store, 1, Len(call.before)) = call.before
    /\ ( /\ startswith(strip(call.text), "/")
         /\ cmdOf(call.text) = K_add
         /\ call.res.reply.kind = "add_ok" )
       => /\ call.res.saved = 1
          /\ store = call.res.reels
          /\ Len(store) = Len(call.before) + 1
          /\ store[Len(store)].format = upper(AddParts(call.text)[1])
          /\ store[Len(store)].hook = AddParts(call.text)[2]
    /\ ( /\ startswith(strip(call.text), "/")
         /\ cmdOf(call.text) = K_add
         /\ call.res.reply.kind \in
              {"usage_add", "add_bad_format", "add_unknown_format", "add_need_hook"} )
       => /\ call.res.saved = 0
          /\ call.res.reels = call.before
          /\ store = call.before

\* C22 witness: the add that made the first record was dispatched again and
\* the collection holds the record twice.
C22_Witness ==
  /\ call.done /\ call.text = T_add_A
  /\ Len(call.before) = 1
  /\ Len(store) = 2
  /\ store[1] = call.before[1]
  /\ store[2] = store[1]

\* ------------------------------------------------------------------------
\* The handlers on their own: one call of a handler through dispatch, its
\* inputs drawn from bounded sets
\* ------------------------------------------------------------------------

\* the metrics cmd_add reads from parts[2..6], in that order
MetricNames == <<"views", "likes", "saves", "shares", "comments">>

\* what a user may type in a metric field: nothing, a decimal number, one
\* with blanks around it, a word, a superscript digit
FieldTexts == { <<>>, <<"1","2">>, <<" ","7"," ">>, <<"x">>, <<"^">> }

\* up to one field for every metric
FieldSeqs == UNION { [1..k -> FieldTexts] : k \in 0..Len(MetricNames) }

RECURSIVE joinFields(_)
joinFields(fs) ==
  IF fs = <<>> THEN <<>> ELSE <<"|">> \o Head(fs) \o joinFields(Tail(fs))

\* /add A|h followed by the metric fields
AddTexts == { T_add_A \o joinFields(fs) : fs \in FieldSeqs }

\* the records of the collections stats is called on
StatReels ==
  { [format |-> f, hook |-> <<"h">>, views |-> v, likes |-> 0, saves |-> 0,
     shares |-> 0, comments |-> 0, reach |-> 0, days_live |-> 1] :
      f \in {<<"A">>, <<"B">>}, v \in {50, 100, 200} }

Stores == UNION { [1..n -> StatReels] : n \in 0..MaxStatReels }

\* the saved collection is any of Stores; nothing has been dispatched
InitH ==
  /\ pc = "POLLING"
  /\ exc = "none"
  /\ offset = 0
  /\ updates = <<>>
  /\ upd = 0
  /\ data = <<>>
  /\ reply = None
  /\ msgs = <<>>
  /\ pending = {}
  /\ store \in Stores
  /\ dispatched = {}
  /\ owed = {}
  /\ leftover = {}
  /\ maxSeen = -1
  /\ ordered = TRUE
  /\ restarts = 0
  /\ posts = <<>>
  /\ fault = "none"
  /\ call = NoCall

\* dispatch("/stats", data, chat_id) on the saved collection
CallStats ==
  /\ ~call.done
  /\ LET res == dispatch(K_stats, store, NoCall.env)
     IN  /\ call' = [done |-> TRUE, text |-> K_stats, before |-> store,
                     env |-> NoCall.env, res |-> res]
         /\ store' = IF res.saved = 1 THEN res.reels ELSE store
  /\ UNCHANGED <<loopVars, posts>>

\* dispatch(text, data, chat_id) for an add on the empty collection
CallAdd ==
  /\ ~call.done
  /\ store = <<>>
  /\ \E text \in AddTexts :
       LET res == dispatch(text, store, NoCall.env)
       IN  /\ call' = [done |-> TRUE, text |-> text, before |-> store,
                       env |-> NoCall.env, res |-> res]
           /\ store' = IF res.saved = 1 THEN res.reels ELSE store
  /\ UNCHANGED <<loopVars, posts>>

\* dispatch("/week", data, chat_id) on any day
CallWeek ==
  /\ ~call.done
  /\ store = <<>>
  /\ \E today \in Days :
       LET env == [NoCall.env EXCEPT !.today = today]
           res == dispatch(K_week, store, env)
       IN  /\ call' = [done |-> TRUE, text |-> K_week, before |-> store,
                       env |-> env, res |-> res]
           /\ store' = IF res.saved = 1 THEN res.reels ELSE store
  /\ UNCHANGED <<loopVars, posts>>

\* the lengths of the texts tg_send is called on: around every multiple of
\* the chunk size.  run never passes an empty text: the acknowledgement is
\* a constant and a reply is sent only `if reply`.
SendLengths ==
  { k * ChunkSize + d : k \in 0..MaxChunks, d \in {-1, 0, 1} } \ {-1, 0}

\* a text of n characters, the letters of the alphabet in turn
SendText(n) == [i \in 1..n |-> LowerLetters[(i % 26) + 1]]

\* tg_send(chat_id, text)
CallSend ==
  /\ ~call.done
  /\ store = <<>>
  /\ \E n \in SendLengths :
       /\ call' = [done |-> TRUE, text |-> SendText(n), before |-> store,
                   env |-> NoCall.env,
                   res |-> [NoCall.res EXCEPT !.handler = "tg_send"]]
       /\ posts' = tg_send(7, SendText(n))
  /\ UNCHANGED <<store, loopVars>>

NextH == CallAdd \/ CallStats \/ CallWeek \/ CallSend

HandlerSpec == InitH /\ [][NextH]_vars

\* ------------------------------------------------------------------------
\* Properties of the handlers (HandlerSpec)
\* ------------------------------------------------------------------------

\* a plain non-negative decimal integer
PlainDecimal(s) == s # <<>> /\ \A i \in 1..Len(s) : isDecimal(s[i])

\* C11: an add with a valid format label and a hook never raises and
\* appends one record; each of views, likes, saves, shares, comments is the
\* integer its field spells when the field is a plain non-negative decimal
\* integer, and 0 when the field is absent or is anything else.
C11_PermissiveInt ==
  LET parts == AddParts(call.text)
  IN  ( /\ call.done
        /\ cmdOf(call.text) = K_add
        /\ Len(parts) >= 2
        /\ upper(parts[1]) \in FORMAT_NAMES
        /\ parts[2] # <<>> )
      => /\ ~call.res.raised
         /\ call.res.reply.kind = "add_ok"
         /\ Len(call.res.reels) = Len(call.before) + 1
         /\ \A i \in 1..Len(MetricNames) :
              call.res.reels[Len(call.res.reels)][MetricNames[i]] =
                IF Len(parts) >= i + 2 /\ PlainDecimal(parts[i + 2])
                  THEN int(parts[i + 2])
                  ELSE 0

\* the sum of the views of the records of reels at the positions in S
RECURSIVE SumViews(_, _)
SumViews(reels, S) ==
  IF S = {} THEN 0
  ELSE LET i == CHOOSE x \in S : TRUE
       IN  reels[i].views + SumViews(reels, S \ {i})

\* C13: stats on a non-empty collection lists one line for each format
\* label that occurs and no other line; the line gives the number of
\* records with the label and the floor of the mean of their views; the
\* lines are in the order of the labels.
C13_StatsPerCategory ==
  ( call.done /\ call.text = K_stats /\ call.before # <<>> ) =>
    LET reels == call.before
        lines == call.res.reply.arg[2]
        of(f) == {i \in 1..Len(reels) : reels[i].format = f}
    IN  /\ call.res.reply.kind = "stats"
        /\ \A i \in 1..Len(reels) :
             Cardinality({k \in 1..Len(lines) : lines[k][1] = reels[i].format}) = 1
        /\ \A k \in 1..Len(lines) :
             /\ of(lines[k][1]) # {}
             /\ lines[k][2] = Cardinality(of(lines[k][1]))
             /\ lines[k][3] = SumViews(reels, of(lines[k][1])) \div lines[k][2]
        /\ \A j, k \in 1..Len(lines) :
             j < k => labelRank(lines[j][1]) < labelRank(lines[k][1])

\* C13 witness: stats on B:50, A:100, A:200 answered A with 2 records and
\* avg 150, then B with 1 record and avg 50.
C13_Witness ==
  /\ call.done /\ call.text = K_stats
  /\ Len(call.before) = 3
  /\ call.before[1].format = <<"B">> /\ call.before[1].views = 50
  /\ call.before[2].format = <<"A">> /\ call.before[2].views = 100
  /\ call.before[3].format = <<"A">> /\ call.before[3].views = 200
  /\ call.res.reply.arg[2] = << <<<<"A">>, 2, 150>>, <<<<"B">>, 1, 50>> >>

\* where the record at position i of reels comes in the order of views,
\* highest first, equal views in the order of the collection
ViewsRank(reels, i) ==
  Cardinality({j \in 1..Len(reels) : reels[j].views > reels[i].views})
    + Cardinality({j \in 1..i : reels[j].views = reels[i].views})

\* C14: the top list of stats has min(3, n) entries; its k-th entry is the
\* record that comes k-th by views, highest first, records with equal views
\* in the order they have in the collection.
C14_TopThreeStable ==
  ( call.done /\ call.text = K_stats /\ call.before # <<>> ) =>
    LET reels == call.before
        top   == call.res.reply.arg[3]
    IN  /\ Len(top) = IF Len(reels) < 3 THEN Len(reels) ELSE 3
        /\ \A k \in 1..Len(top) :
             \E i \in 1..Len(reels) :
               /\ ViewsRank(reels, i) = k
               /\ top[k] = <<reels[i].views, reels[i].format, reels[i].hook>>

\* C14 witness: of four records, two with equal views and different labels
\* are second and third of the top list.
C14_Witness ==
  /\ call.done /\ call.text = K_stats
  /\ Len(call.before) = 4
  /\ Len(call.res.reply.arg[3]) = 3
  /\ call.res.reply.arg[3][2][1] = call.res.reply.arg[3][3][1]
  /\ call.res.reply.arg[3][2][2] # call.res.reply.arg[3][3][2]

\* the Monday of the week of day d: ordinals of Mondays are 1 modulo 7
MondayOf(d) == CHOOSE m \in (d - 6)..d : m % 7 = 1

\* C15: whatever day it is, the weekly schedule has four slots, on the days
\* 0, 2, 4 and 6 after the Monday of the week of today; a slot carries the
\* today marker exactly when its day is today, so exactly one slot is
\* marked on a Monday, Wednesday, Friday or Sunday and none on the other
\* days.
C15_WeekSchedule ==
  ( call.done /\ call.text = K_week ) =>
    LET today  == call.env.today
        slots  == call.res.reply.arg
        marked == {i \in 1..Len(slots) : slots[i][3]}
    IN  /\ call.res.reply.kind = "week"
        /\ Len(slots) = 4
        /\ \A i \in 1..Len(slots) :
             /\ slots[i][1] = MondayOf(today) + 2 * (i - 1)
             /\ slots[i][3] <=> (slots[i][1] = today)
        /\ Cardinality(marked) =
             IF today - MondayOf(today) \in {0, 2, 4, 6} THEN 1 ELSE 0

\* C15 witness: on a Wednesday of the second week the second slot is the one
\* marked; the slots are days 8, 10, 12 and 14.
C15_Witness ==
  /\ call.done /\ call.text = K_week /\ call.env.today = 10
  /\ call.res.reply.arg[1][1] = 8
  /\ ~call.res.reply.arg[1][3]
  /\ call.res.reply.arg[2][3]

\* the texts of the requests, joined
RECURSIVE Joined(_)
Joined(ps) == IF ps = <<>> THEN <<>> ELSE Head(ps).text \o Joined(Tail(ps))

\* C16: tg_send posts its text as requests of at most 4000 characters
\* each, to the chat it was given, whose texts joined in the order posted
\* are the text; a text of at most 4000 characters is posted as one request.
C16_ChunkedSend ==
  ( call.done /\ call.res.handler = "tg_send" ) =>
    /\ \A k \in 1..Len(posts) :
         Len(posts[k].text) <= 4000 /\ posts[k].chat_id = 7
    /\ Joined(posts) = call.text
    /\ Len(call.text) <= 4000 => Len(posts) = 1

\* C16 witness: a text of 8001 characters went out as three requests, the
\* last of one character.
C16_Witness ==
  /\ call.done /\ call.res.handler = "tg_send"
  /\ Len(call.text) = 8001
  /\ Len(posts) = 3
  /\ Len(posts[3].text) = 1

====
